---- MODULE Spec2Model ----
(***************************************************************************)
(* Model of cppgc's HeapBase (src/src/heap/cppgc/heap-base.cc): the       *)
(* termination protocol HeapBase::Terminate(), ExecutePreFinalizers() and *)
(* CollectStatistics(), together with the state of the collaborators they *)
(* drive (persistent regions, sweeper, object allocator, stats collector).*)
(*                                                                         *)
(* The owning thread's position inside a call is the variable pc; every    *)
(* statement of Terminate() is one step, so that orderings and the states  *)
(* between two statements can be checked.                                  *)
(***************************************************************************)
EXTENDS Integers, Sequences, FiniteSets, TLC

\* ------------------------------------------------------------------ bounds
\* Most slots the mutator registers in one persistent region.
MaxNodes == 1
\* Largest byte quantity (a LAB size, a statistics counter).
MaxBytes == 1
\* Most DisallowGarbageCollectionScopes the embedder holds open at once.
MaxScopes == 1
\* Most slots the remembered set holds.
MaxSlots == 1
\* Most object headers on the heap, and the largest object size.
MaxObjects == 2
MaxObjectSize == 2

\* --------------------------------------------------------------- constants
\* constexpr size_t kMaxTerminationGCs = 20;
kMaxTerminationGCs == 20

\* The four PersistentRegion members of HeapBase, by member name.
SameThreadRegions == {"strong_persistent_region_", "weak_persistent_region_"}
CrossThreadRegions == {"strong_cross_thread_persistent_region_",
                       "weak_cross_thread_persistent_region_"}
Regions == SameThreadRegions \cup CrossThreadRegions

\* The normal-page spaces of the raw heap, each with one linear allocation
\* buffer.
Spaces == {"space0", "space1"}

VARIABLES
    \* build configuration: "on", "off", or "undetermined" as long as no
    \* statement that depends on it has been executed
    dcheck_enabled,      \* DEBUG build: DCHECK(...) is compiled in
    allow_alloc_prefin,  \* CPPGC_ALLOW_ALLOCATIONS_IN_PREFINALIZERS is defined
    \* HeapBase fields
    in_atomic_pause_,
    disallow_gc_scope_,
    no_gc_scope_,
    is_marking,          \* IsMarking(): a marker exists
    nodes_in_use,        \* region -> NodesInUse()
    region_lock,         \* PersistentRegionLock holder: "none", "main", "other"
    \* sweeper
    sweeper_in_progress, \* a sweep is in flight
    notify_done_pending, \* a finished sweep has not been notified yet
    \* object allocator
    allocator_terminated,
    lab,                 \* space -> linear_allocation_buffer().size()
    \* stats collector counters
    stats,
    \* pre-finalizer registry
    bytes_allocated_in_prefinalizers,
    \* the owning thread
    pc,
    gc_count,
    more_termination_gcs_needed,
    result,              \* what the call that just returned gave its caller
    \* observation of the current call (history, reset when the call returns)
    trace,               \* steps of the current loop iteration / call, in order
    entry,               \* the state Terminate() was called in
    abort_site,          \* which check aborted the process
    scopes_open,         \* scopes the embedder has entered and not yet left
    terminated,          \* Terminate() has returned normally
    \* generational configuration (CPPGC_YOUNG_GENERATION)
    age_table,           \* "reset", or "set" once some card has an age
    remembered_set,      \* number of slots recorded in remembered_set_
    \* raw_heap_: space -> sequence of pages, a page a sequence of headers
    raw_heap,
    \* a second thread that creates cross-thread handles
    other_pc

vars == <<dcheck_enabled, allow_alloc_prefin, in_atomic_pause_,
          disallow_gc_scope_, no_gc_scope_, is_marking, nodes_in_use,
          region_lock, sweeper_in_progress, notify_done_pending,
          allocator_terminated, lab, stats, bytes_allocated_in_prefinalizers,
          pc, gc_count, more_termination_gcs_needed, result, trace, entry,
          abort_site, scopes_open, terminated, age_table, remembered_set,
          raw_heap, other_pc>>

buildVars == <<dcheck_enabled, allow_alloc_prefin>>
scopeVars == <<disallow_gc_scope_, no_gc_scope_, scopes_open>>
sweeperVars == <<sweeper_in_progress, notify_done_pending>>
allocatorVars == <<allocator_terminated, lab>>
loopVars == <<gc_count, more_termination_gcs_needed>>
callVars == <<entry, abort_site, terminated>>
youngVars == <<age_table, remembered_set>>
\* What the owning thread's calls into Terminate() and CollectStatistics()
\* and its handle, scope and LAB traffic never touch.
bystanderVars == <<youngVars, raw_heap, other_pc>>

NoEntry == [called |-> FALSE]

\* The builds an execution can belong to, given what it has shown of its
\* build so far: the build is one and the same for the whole execution.
BuildsOf(flag) == IF flag = "undetermined" THEN {"on", "off"} ELSE {flag}
NoResult == [kind |-> "none"]

\* ------------------------------------------------------------------- Init
\* HeapBase::HeapBase: every region empty, no sweep, no scope, counters zero.
Init ==
    /\ dcheck_enabled = "undetermined"
    /\ allow_alloc_prefin = "undetermined"
    /\ in_atomic_pause_ = FALSE
    /\ disallow_gc_scope_ = 0
    /\ no_gc_scope_ = 0
    /\ is_marking = FALSE
    /\ nodes_in_use = [r \in Regions |-> 0]
    /\ region_lock = "none"
    /\ sweeper_in_progress = FALSE
    /\ notify_done_pending = FALSE
    /\ allocator_terminated = FALSE
    /\ lab = [s \in Spaces |-> 0]
    /\ stats = [allocated_memory_size |-> 0, resident_memory_size |-> 0,
                allocated_object_size |-> 0]
    /\ bytes_allocated_in_prefinalizers = 0
    /\ pc = "idle"
    /\ gc_count = 0
    /\ more_termination_gcs_needed = FALSE
    /\ result = NoResult
    /\ trace = <<>>
    /\ entry = NoEntry
    /\ abort_site = "none"
    /\ scopes_open = 0
    /\ terminated = FALSE
    /\ age_table = "reset"
    /\ remembered_set = 0
    /\ raw_heap = [s \in Spaces |-> <<>>]
    /\ other_pc = "idle"

\* ------------------------------------------------- collaborators' interface
\* bool in_disallow_gc_scope() const { return disallow_gc_scope_ > 0; }
in_disallow_gc_scope == disallow_gc_scope_ > 0

\* PersistentRegion::ClearAllUsedNodes(): every used slot is released.
ClearAllUsedNodes(nodes, r) == [nodes EXCEPT ![r] = 0]

\* PersistentRegion: registering one slot.
RegisterNode(nodes, r) == [nodes EXCEPT ![r] = @ + 1]

\* PersistentRegion::NodesInUse().
NodesInUse(r) == nodes_in_use[r]

\* ObjectAllocator::ResetLinearAllocationBuffers(): every space's LAB is
\* given back, its size becomes 0.
ResetLinearAllocationBuffers(labs) == [s \in Spaces |-> 0]

\* Sweeper::FinishIfRunning() is a blocking join: the call returns only when
\* no sweep is in flight any more.
FinishIfRunningReturns == ~sweeper_in_progress

\* What embedder code run by a pre-finalizer or by a finalizer during the
\* sweep may do to the roots: register one new slot in some region, or not.
Resurrections == Regions \cup {"none"}
Resurrect(nodes, r) == IF r = "none" THEN nodes ELSE RegisterNode(nodes, r)


\* Sweeper::Start({kAtomic, kSweep}): the whole sweep runs inside the call;
\* what is left is the notification, which NotifyDoneIfNeeded() delivers.
SweeperStartAtomic == notify_done_pending' = TRUE /\ UNCHANGED sweeper_in_progress

\* Sweeper::NotifyDoneIfNeeded().
SweeperNotifyDoneIfNeeded == notify_done_pending' = FALSE /\ UNCHANGED sweeper_in_progress

\* The counters a StatsCollector can hold: resident memory and live objects
\* never exceed the allocated memory.
StatsValues ==
    {st \in [allocated_memory_size : 0..MaxBytes,
             resident_memory_size : 0..MaxBytes,
             allocated_object_size : 0..MaxBytes] :
        /\ st.resident_memory_size <= st.allocated_memory_size
        /\ st.allocated_object_size <= st.allocated_memory_size}

\* ------------------------------------------------------------ the mutator
\* What the owning thread does between two calls into HeapBase.

\* A Persistent / WeakPersistent / cross-thread handle is created. A
\* cross-thread registration holds the PersistentRegionLock for its duration.
RegisterRoot(r) ==
    /\ pc = "idle"
    /\ nodes_in_use[r] < MaxNodes
    /\ r \in CrossThreadRegions => region_lock = "none"
    /\ nodes_in_use' = RegisterNode(nodes_in_use, r)
    /\ result' = NoResult
    /\ UNCHANGED <<buildVars, bystanderVars, in_atomic_pause_, scopeVars, is_marking,
                   region_lock, sweeperVars, allocatorVars, stats,
                   bytes_allocated_in_prefinalizers, pc, loopVars, callVars,
                   trace>>

\* DisallowGarbageCollectionScope entered by the embedder.
EnterDisallowGarbageCollectionScope ==
    /\ pc = "idle"
    /\ scopes_open < MaxScopes
    /\ disallow_gc_scope_' = disallow_gc_scope_ + 1
    /\ scopes_open' = scopes_open + 1
    /\ result' = NoResult
    /\ UNCHANGED <<buildVars, bystanderVars, in_atomic_pause_, no_gc_scope_, is_marking,
                   nodes_in_use, region_lock, sweeperVars, allocatorVars,
                   stats, bytes_allocated_in_prefinalizers, pc, loopVars,
                   callVars, trace>>

\* ... and left again.
LeaveDisallowGarbageCollectionScope ==
    /\ pc = "idle"
    /\ scopes_open > 0
    /\ disallow_gc_scope_' = disallow_gc_scope_ - 1
    /\ scopes_open' = scopes_open - 1
    /\ result' = NoResult
    /\ UNCHANGED <<buildVars, bystanderVars, in_atomic_pause_, no_gc_scope_, is_marking,
                   nodes_in_use, region_lock, sweeperVars, allocatorVars,
                   stats, bytes_allocated_in_prefinalizers, pc, loopVars,
                   callVars, trace>>

\* An (incremental) collection starts marking. No collection starts inside a
\* disallow-GC or no-GC scope, nor while the previous sweep is in flight.
StartMarking ==
    /\ pc = "idle"
    /\ ~is_marking
    /\ ~in_disallow_gc_scope
    /\ no_gc_scope_ = 0
    /\ ~sweeper_in_progress
    /\ is_marking' = TRUE
    /\ result' = NoResult
    /\ UNCHANGED <<buildVars, bystanderVars, in_atomic_pause_, scopeVars, nodes_in_use,
                   region_lock, sweeperVars, allocatorVars, stats,
                   bytes_allocated_in_prefinalizers, pc, loopVars, callVars,
                   trace>>

\* Marking finishes and the collection hands over to a concurrent sweep.
\* Finalizing the collection is a collection step: not inside a scope.
FinishMarking ==
    /\ pc = "idle"
    /\ is_marking
    /\ ~in_disallow_gc_scope
    /\ no_gc_scope_ = 0
    /\ is_marking' = FALSE
    /\ sweeper_in_progress' = TRUE
    /\ result' = NoResult
    /\ UNCHANGED <<buildVars, bystanderVars, in_atomic_pause_, scopeVars, nodes_in_use,
                   region_lock, notify_done_pending, allocatorVars, stats,
                   bytes_allocated_in_prefinalizers, pc, loopVars, callVars,
                   trace>>

\* The sweep in flight finishes (on the background workers, or helped by the
\* thread blocked in FinishIfRunning()).
SweepFinishes ==
    /\ sweeper_in_progress
    /\ sweeper_in_progress' = FALSE
    /\ UNCHANGED <<buildVars, bystanderVars, in_atomic_pause_, scopeVars, is_marking,
                   nodes_in_use, region_lock, notify_done_pending,
                   allocatorVars, stats, bytes_allocated_in_prefinalizers, pc,
                   loopVars, callVars, result, trace>>

\* The mutator allocates: the LAB of a space is refilled, consumed or given
\* back. A terminated allocator allocates nothing.
Allocate(s, n) ==
    /\ pc = "idle"
    /\ ~allocator_terminated
    /\ n # lab[s]
    /\ lab' = [lab EXCEPT ![s] = n]
    /\ result' = NoResult
    /\ UNCHANGED <<buildVars, bystanderVars, in_atomic_pause_, scopeVars, is_marking,
                   nodes_in_use, region_lock, sweeperVars,
                   allocator_terminated, stats,
                   bytes_allocated_in_prefinalizers, pc, loopVars, callVars,
                   trace>>

\* The stats collector accounts for pages and objects allocated or freed by
\* the mutator: its counters move.
AccountAllocation(st) ==
    /\ pc = "idle"
    /\ ~allocator_terminated
    /\ st # stats
    /\ stats' = st
    /\ result' = NoResult
    /\ UNCHANGED <<buildVars, bystanderVars, in_atomic_pause_, scopeVars, is_marking,
                   nodes_in_use, region_lock, sweeperVars, allocatorVars,
                   bytes_allocated_in_prefinalizers, pc, loopVars, callVars,
                   trace>>

\* ------------------------------------------------------ HeapBase::Terminate
\* Steps of the call by the owning thread; pc names the statement to execute
\* next. Everything a step does not assign is left unchanged.

TermFrame == <<buildVars, bystanderVars, is_marking, stats, scopes_open, terminated, result>>
EntryFrame == <<allow_alloc_prefin, bystanderVars, in_atomic_pause_, scopeVars, is_marking,
                nodes_in_use, region_lock, sweeperVars, allocatorVars, stats,
                bytes_allocated_in_prefinalizers, loopVars, terminated>>

\* Mutant: the CHECK on the disallow-GC scope is missing.
TerminateEntryCheckFails_NoScopeCheck(dchecks) ==
    dchecks = "on" /\ is_marking

\* Mutant: the DCHECK on marking is missing.
TerminateEntryCheckFails_NoMarkingCheck(dchecks) ==
    in_disallow_gc_scope

\* DCHECK(!IsMarking()); CHECK(!in_disallow_gc_scope());
\* The DCHECK is compiled in only in a build with DCHECKs on.
TerminateEntryCheckFails(dchecks) ==
    (dchecks = "on" /\ is_marking) \/ in_disallow_gc_scope

\* The call, and the two checks on entry.
Terminate_Entry(dchecks) ==
    /\ pc = "idle"
    /\ dcheck_enabled' = dchecks
    /\ entry' = [called |-> TRUE,
                 disallow_gc_scope |-> disallow_gc_scope_,
                 sweep_in_flight |-> sweeper_in_progress]
    /\ trace' = <<>>
    /\ result' = NoResult
    /\ IF TerminateEntryCheckFails(dchecks)
         THEN pc' = "aborted" /\ abort_site' = "entry_check"
         ELSE pc' = "T_finish" /\ UNCHANGED abort_site
    /\ UNCHANGED EntryFrame

\* Mutant: Terminate() does not wait for the sweep in flight.
Terminate_FinishIfRunning_NoJoin ==
    /\ pc = "T_finish"
    /\ pc' = "T_loop"
    /\ gc_count' = 0
    /\ more_termination_gcs_needed' = FALSE
    /\ trace' = Append(trace, <<"FinishIfRunning", entry.sweep_in_flight>>)
    /\ entry' = [entry EXCEPT !.sweep_in_flight = FALSE]
    /\ UNCHANGED <<TermFrame, in_atomic_pause_, disallow_gc_scope_,
                   no_gc_scope_, nodes_in_use, region_lock, sweeperVars,
                   allocatorVars, bytes_allocated_in_prefinalizers,
                   abort_site>>

\* sweeper().FinishIfRunning(); then gc_count = 0 and
\* more_termination_gcs_needed = false.
Terminate_FinishIfRunning ==
    /\ pc = "T_finish"
    /\ FinishIfRunningReturns
    /\ pc' = "T_loop"
    /\ gc_count' = 0
    /\ more_termination_gcs_needed' = FALSE
    /\ trace' = Append(trace, <<"FinishIfRunning", entry.sweep_in_flight>>)
    /\ entry' = [entry EXCEPT !.sweep_in_flight = FALSE]
    /\ UNCHANGED <<TermFrame, in_atomic_pause_, disallow_gc_scope_,
                   no_gc_scope_, nodes_in_use, region_lock, sweeperVars,
                   allocatorVars, bytes_allocated_in_prefinalizers,
                   abort_site>>

\* Mutant: the bound is compared with <=, one iteration too many.
GcCountCheckPasses_OffByOne(count) == count <= kMaxTerminationGCs

\* CHECK_LT(gc_count++, kMaxTerminationGCs): compares the value before the
\* increment.
GcCountCheckPasses(count) == count < kMaxTerminationGCs

\* Mutant: the loop goes back to the checks made on entry, and a
\* disallow-GC scope active at the head of an iteration aborts.
Terminate_LoopHead_RepeatsEntryCheck ==
    /\ pc = "T_loop"
    /\ gc_count' = gc_count + 1
    /\ trace' = IF gc_count = 0 THEN trace ELSE <<>>
    /\ IF GcCountCheckPasses(gc_count) /\ ~in_disallow_gc_scope
         THEN pc' = "T_clear_strong" /\ UNCHANGED abort_site
         ELSE pc' = "aborted" /\ abort_site' = "gc_count"
    /\ UNCHANGED <<TermFrame, in_atomic_pause_, disallow_gc_scope_,
                   no_gc_scope_, nodes_in_use, region_lock, sweeperVars,
                   allocatorVars, bytes_allocated_in_prefinalizers,
                   more_termination_gcs_needed, entry>>

\* Mutant: the iterations are not counted and the bound is not checked.
Terminate_LoopHead_NoBound ==
    /\ pc = "T_loop"
    /\ gc_count' = 1
    /\ trace' = IF gc_count = 0 THEN trace ELSE <<>>
    /\ pc' = "T_clear_strong"
    /\ UNCHANGED <<TermFrame, in_atomic_pause_, disallow_gc_scope_,
                   no_gc_scope_, nodes_in_use, region_lock, sweeperVars,
                   allocatorVars, bytes_allocated_in_prefinalizers,
                   more_termination_gcs_needed, entry, abort_site>>

\* do { CHECK_LT(gc_count++, kMaxTerminationGCs);
Terminate_LoopHead ==
    /\ pc = "T_loop"
    /\ gc_count' = gc_count + 1
    /\ trace' = IF gc_count = 0 THEN trace ELSE <<>>
    /\ IF GcCountCheckPasses(gc_count)
         THEN pc' = "T_clear_strong" /\ UNCHANGED abort_site
         ELSE pc' = "aborted" /\ abort_site' = "gc_count"
    /\ UNCHANGED <<TermFrame, in_atomic_pause_, disallow_gc_scope_,
                   no_gc_scope_, nodes_in_use, region_lock, sweeperVars,
                   allocatorVars, bytes_allocated_in_prefinalizers,
                   more_termination_gcs_needed, entry>>

\* One of the four <region>.ClearAllUsedNodes() statements.
Terminate_Clear(r, from, to) ==
    /\ pc = from
    /\ pc' = to
    /\ nodes_in_use' = ClearAllUsedNodes(nodes_in_use, r)
    /\ trace' = Append(trace, <<"ClearAllUsedNodes", r>>)
    /\ UNCHANGED <<TermFrame, in_atomic_pause_, disallow_gc_scope_,
                   no_gc_scope_, region_lock, sweeperVars, allocatorVars,
                   bytes_allocated_in_prefinalizers, loopVars, entry,
                   abort_site>>

\* Mutant: the block has no guard, the lock is not taken.
Terminate_Lock_NoLock(from, to) ==
    /\ pc = from
    /\ pc' = to
    /\ UNCHANGED <<TermFrame, in_atomic_pause_, disallow_gc_scope_,
                   no_gc_scope_, nodes_in_use, region_lock, sweeperVars,
                   allocatorVars, bytes_allocated_in_prefinalizers, loopVars,
                   trace, entry, abort_site>>

\* PersistentRegionLock guard; (constructor: blocks until the lock is free)
Terminate_Lock(from, to) ==
    /\ pc = from
    /\ region_lock = "none"
    /\ pc' = to
    /\ region_lock' = "main"
    /\ UNCHANGED <<TermFrame, in_atomic_pause_, disallow_gc_scope_,
                   no_gc_scope_, nodes_in_use, sweeperVars, allocatorVars,
                   bytes_allocated_in_prefinalizers, loopVars, trace, entry,
                   abort_site>>

\* Mutant: the lock is not released at the end of the block.
Terminate_Unlock_KeepsLock(from, to) ==
    /\ pc = from
    /\ pc' = to
    /\ UNCHANGED <<TermFrame, in_atomic_pause_, disallow_gc_scope_,
                   no_gc_scope_, nodes_in_use, region_lock, sweeperVars,
                   allocatorVars, bytes_allocated_in_prefinalizers, loopVars,
                   trace, entry, abort_site>>

\* End of the guard's block: the lock is released.
Terminate_Unlock(from, to) ==
    /\ pc = from
    /\ pc' = to
    /\ region_lock' = "none"
    /\ UNCHANGED <<TermFrame, in_atomic_pause_, disallow_gc_scope_,
                   no_gc_scope_, nodes_in_use, sweeperVars, allocatorVars,
                   bytes_allocated_in_prefinalizers, loopVars, trace, entry,
                   abort_site>>

\* in_atomic_pause_ = true;
Terminate_EnterAtomicPause ==
    /\ pc = "T_pause_on"
    /\ pc' = "T_marking_started"
    /\ in_atomic_pause_' = TRUE
    /\ UNCHANGED <<TermFrame, disallow_gc_scope_, no_gc_scope_, nodes_in_use,
                   region_lock, sweeperVars, allocatorVars,
                   bytes_allocated_in_prefinalizers, loopVars, trace, entry,
                   abort_site>>

\* stats_collector()->NotifyMarkingStarted(kMajor, kForced);
Terminate_NotifyMarkingStarted ==
    /\ pc = "T_marking_started"
    /\ pc' = "T_reset_labs"
    /\ trace' = Append(trace, <<"NotifyMarkingStarted", "kMajor", "kForced">>)
    /\ UNCHANGED <<TermFrame, in_atomic_pause_, disallow_gc_scope_,
                   no_gc_scope_, nodes_in_use, region_lock, sweeperVars,
                   allocatorVars, bytes_allocated_in_prefinalizers, loopVars,
                   entry, abort_site>>

\* object_allocator().ResetLinearAllocationBuffers();
Terminate_ResetLinearAllocationBuffers ==
    /\ pc = "T_reset_labs"
    /\ pc' = "T_marking_completed"
    /\ lab' = ResetLinearAllocationBuffers(lab)
    /\ trace' = Append(trace, <<"ResetLinearAllocationBuffers">>)
    /\ UNCHANGED <<TermFrame, in_atomic_pause_, disallow_gc_scope_,
                   no_gc_scope_, nodes_in_use, region_lock, sweeperVars,
                   allocator_terminated, bytes_allocated_in_prefinalizers,
                   loopVars, entry, abort_site>>

\* Mutant: the call of ExecutePreFinalizers() is lost.
Terminate_NotifyMarkingCompleted_ThenSweep ==
    /\ pc = "T_marking_completed"
    /\ pc' = "T_sweeper_start"
    /\ trace' = Append(trace, <<"NotifyMarkingCompleted", 0>>)
    /\ UNCHANGED <<TermFrame, in_atomic_pause_, disallow_gc_scope_,
                   no_gc_scope_, nodes_in_use, region_lock, sweeperVars,
                   allocatorVars, bytes_allocated_in_prefinalizers, loopVars,
                   entry, abort_site>>

\* stats_collector()->NotifyMarkingCompleted(0);
Terminate_NotifyMarkingCompleted ==
    /\ pc = "T_marking_completed"
    /\ pc' = "T_prefinalizers_scope"
    /\ trace' = Append(trace, <<"NotifyMarkingCompleted", 0>>)
    /\ UNCHANGED <<TermFrame, in_atomic_pause_, disallow_gc_scope_,
                   no_gc_scope_, nodes_in_use, region_lock, sweeperVars,
                   allocatorVars, bytes_allocated_in_prefinalizers, loopVars,
                   entry, abort_site>>


PrefinFrame == <<dcheck_enabled, bystanderVars, is_marking, stats, scopes_open, terminated,
                 in_atomic_pause_, region_lock, sweeperVars,
                 allocatorVars, loopVars, entry, abort_site>>

\* Mutant: the callbacks are invoked without any scope around them.
ExecutePreFinalizers_EnterScope_NoScope(allow) ==
    /\ pc = "T_prefinalizers_scope"
    /\ pc' = "T_prefinalizers_invoke"
    /\ allow_alloc_prefin' = allow
    /\ UNCHANGED <<PrefinFrame, nodes_in_use, disallow_gc_scope_, no_gc_scope_,
                   bytes_allocated_in_prefinalizers, trace, result>>

\* ExecutePreFinalizers(), entry: the scope object is constructed.
\* With CPPGC_ALLOW_ALLOCATIONS_IN_PREFINALIZERS it is a
\* NoGarbageCollectionScope, otherwise a DisallowGarbageCollectionScope.
ExecutePreFinalizers_EnterScope(allow) ==
    /\ pc = "T_prefinalizers_scope"
    /\ pc' = "T_prefinalizers_invoke"
    /\ allow_alloc_prefin' = allow
    /\ IF allow = "on"
         THEN no_gc_scope_' = no_gc_scope_ + 1 /\ UNCHANGED disallow_gc_scope_
         ELSE disallow_gc_scope_' = disallow_gc_scope_ + 1 /\ UNCHANGED no_gc_scope_
    /\ UNCHANGED <<PrefinFrame, nodes_in_use,
                   bytes_allocated_in_prefinalizers, trace, result>>

\* Bytes the callbacks can allocate: none where allocation is forbidden.
PrefinalizerAllocations == IF allow_alloc_prefin = "on" THEN 0..MaxBytes ELSE {0}

\* prefinalizer_handler_->InvokePreFinalizers(): the callbacks run; one may
\* register a new root (taking the lock for a cross-thread one).
ExecutePreFinalizers_Invoke(r, b) ==
    /\ pc = "T_prefinalizers_invoke"
    /\ r \in CrossThreadRegions => region_lock = "none"
    /\ pc' = "T_prefinalizers_extract"
    /\ nodes_in_use' = Resurrect(nodes_in_use, r)
    /\ bytes_allocated_in_prefinalizers' = b
    /\ trace' = Append(trace, <<"ExecutePreFinalizers">>)
    /\ UNCHANGED <<PrefinFrame, allow_alloc_prefin, disallow_gc_scope_,
                   no_gc_scope_, result>>

\* return prefinalizer_handler_->ExtractBytesAllocatedInPrefinalizers();
\* The registry hands out its counter and starts again from 0; the scope
\* object is destroyed.
ExecutePreFinalizers_Return ==
    /\ pc = "T_prefinalizers_extract"
    /\ pc' = "T_sweeper_start"
    /\ result' = [kind |-> "prefinalizers",
                  value |-> bytes_allocated_in_prefinalizers]
    /\ bytes_allocated_in_prefinalizers' = 0
    /\ IF allow_alloc_prefin = "on"
         THEN no_gc_scope_' = no_gc_scope_ - 1 /\ UNCHANGED disallow_gc_scope_
         ELSE disallow_gc_scope_' = disallow_gc_scope_ - 1 /\ UNCHANGED no_gc_scope_
    /\ UNCHANGED <<PrefinFrame, allow_alloc_prefin, nodes_in_use, trace>>

\* The value ExecutePreFinalizers() returned is dropped, then
\* sweeper().Start({kAtomic, kSweep}): finalizers run by the sweep may
\* register a new root as well.
Terminate_SweeperStart(r) ==
    /\ pc = "T_sweeper_start"
    /\ r \in CrossThreadRegions => region_lock = "none"
    /\ pc' = "T_pause_off"
    /\ result' = NoResult
    /\ nodes_in_use' = Resurrect(nodes_in_use, r)
    /\ SweeperStartAtomic
    /\ trace' = Append(trace, <<"SweeperStart", "kAtomic", "kSweep">>)
    /\ UNCHANGED <<buildVars, bystanderVars, is_marking, stats, scopes_open, terminated,
                   in_atomic_pause_, disallow_gc_scope_,
                   no_gc_scope_, region_lock, allocatorVars,
                   bytes_allocated_in_prefinalizers, loopVars, entry,
                   abort_site>>

\* Mutant: the flag is not taken back after the sweep has started.
Terminate_LeaveAtomicPause_StaysSet ==
    /\ pc = "T_pause_off"
    /\ pc' = "T_notify_done"
    /\ UNCHANGED <<TermFrame, in_atomic_pause_, disallow_gc_scope_,
                   no_gc_scope_, nodes_in_use, region_lock, sweeperVars,
                   allocatorVars, bytes_allocated_in_prefinalizers, loopVars,
                   trace, entry, abort_site>>

\* in_atomic_pause_ = false;
Terminate_LeaveAtomicPause ==
    /\ pc = "T_pause_off"
    /\ pc' = "T_notify_done"
    /\ in_atomic_pause_' = FALSE
    /\ UNCHANGED <<TermFrame, disallow_gc_scope_, no_gc_scope_, nodes_in_use,
                   region_lock, sweeperVars, allocatorVars,
                   bytes_allocated_in_prefinalizers, loopVars, trace, entry,
                   abort_site>>

\* sweeper().NotifyDoneIfNeeded();
Terminate_NotifyDoneIfNeeded ==
    /\ pc = "T_notify_done"
    /\ pc' = "T_recheck_strong"
    /\ SweeperNotifyDoneIfNeeded
    /\ trace' = Append(trace, <<"NotifyDoneIfNeeded">>)
    /\ UNCHANGED <<TermFrame, in_atomic_pause_, disallow_gc_scope_,
                   no_gc_scope_, nodes_in_use, region_lock, allocatorVars,
                   bytes_allocated_in_prefinalizers, loopVars, entry,
                   abort_site>>

\* Mutant: the weak cross-thread region is left out of the re-check.
Terminate_Recheck_SkipsWeakCrossThread(r, from, hit, miss) ==
    /\ pc = from
    /\ trace' = Append(trace, <<"NodesInUse", r>>)
    /\ pc' = IF NodesInUse(r) # 0 /\ r # "weak_cross_thread_persistent_region_"
               THEN hit ELSE miss
    /\ UNCHANGED <<TermFrame, in_atomic_pause_, disallow_gc_scope_,
                   no_gc_scope_, nodes_in_use, region_lock, sweeperVars,
                   allocatorVars, bytes_allocated_in_prefinalizers, loopVars,
                   entry, abort_site>>

\* One operand of the || chain that computes more_termination_gcs_needed:
\* a non-zero NodesInUse() decides the chain (hit), zero goes on (miss).
Terminate_Recheck(r, from, hit, miss) ==
    /\ pc = from
    /\ trace' = Append(trace, <<"NodesInUse", r>>)
    /\ pc' = IF NodesInUse(r) # 0 THEN hit ELSE miss
    /\ UNCHANGED <<TermFrame, in_atomic_pause_, disallow_gc_scope_,
                   no_gc_scope_, nodes_in_use, region_lock, sweeperVars,
                   allocatorVars, bytes_allocated_in_prefinalizers, loopVars,
                   entry, abort_site>>

\* more_termination_gcs_needed = <value of the chain>;
Terminate_AssignMore(from, value) ==
    /\ pc = from
    /\ pc' = "T_while"
    /\ more_termination_gcs_needed' = value
    /\ UNCHANGED <<TermFrame, in_atomic_pause_, disallow_gc_scope_,
                   no_gc_scope_, nodes_in_use, region_lock, sweeperVars,
                   allocatorVars, bytes_allocated_in_prefinalizers, gc_count,
                   trace, entry, abort_site>>

\* Mutant: the loop is left whatever the re-check found.
Terminate_While_LeavesAlways ==
    /\ pc = "T_while"
    /\ pc' = "T_allocator_terminate"
    /\ UNCHANGED <<TermFrame, in_atomic_pause_, disallow_gc_scope_,
                   no_gc_scope_, nodes_in_use, region_lock, sweeperVars,
                   allocatorVars, bytes_allocated_in_prefinalizers, loopVars,
                   trace, entry, abort_site>>

\* } while (more_termination_gcs_needed);
Terminate_While ==
    /\ pc = "T_while"
    /\ pc' = IF more_termination_gcs_needed THEN "T_loop"
                                            ELSE "T_allocator_terminate"
    /\ UNCHANGED <<TermFrame, in_atomic_pause_, disallow_gc_scope_,
                   no_gc_scope_, nodes_in_use, region_lock, sweeperVars,
                   allocatorVars, bytes_allocated_in_prefinalizers, loopVars,
                   trace, entry, abort_site>>

\* object_allocator().Terminate();
Terminate_AllocatorTerminate ==
    /\ pc = "T_allocator_terminate"
    /\ pc' = "T_disallow_gc"
    /\ allocator_terminated' = TRUE
    /\ UNCHANGED <<TermFrame, in_atomic_pause_, disallow_gc_scope_,
                   no_gc_scope_, nodes_in_use, region_lock, sweeperVars, lab,
                   bytes_allocated_in_prefinalizers, loopVars, trace, entry,
                   abort_site>>

\* Mutant: the increment of disallow_gc_scope_ is lost.
Terminate_DisallowGc_NoIncrement ==
    /\ pc = "T_disallow_gc"
    /\ pc' = "T_check_strong"
    /\ UNCHANGED <<TermFrame, in_atomic_pause_, disallow_gc_scope_,
                   no_gc_scope_, nodes_in_use, region_lock, sweeperVars,
                   allocatorVars, bytes_allocated_in_prefinalizers, loopVars,
                   trace, entry, abort_site>>

\* disallow_gc_scope_++;
Terminate_DisallowGc ==
    /\ pc = "T_disallow_gc"
    /\ pc' = "T_check_strong"
    /\ disallow_gc_scope_' = disallow_gc_scope_ + 1
    /\ UNCHANGED <<TermFrame, in_atomic_pause_, no_gc_scope_, nodes_in_use,
                   region_lock, sweeperVars, allocatorVars,
                   bytes_allocated_in_prefinalizers, loopVars, trace, entry,
                   abort_site>>

\* One of the four CHECK_EQ(0u, <region>.NodesInUse()) statements.
Terminate_FinalCheck(r, from, to) ==
    /\ pc = from
    /\ IF NodesInUse(r) = 0
         THEN pc' = to /\ UNCHANGED abort_site
         ELSE pc' = "aborted" /\ abort_site' = "final_check"
    /\ UNCHANGED <<TermFrame, in_atomic_pause_, disallow_gc_scope_,
                   no_gc_scope_, nodes_in_use, region_lock, sweeperVars,
                   allocatorVars, bytes_allocated_in_prefinalizers, loopVars,
                   trace, entry>>

\* Terminate() returns to its caller.
Terminate_Return ==
    /\ pc = "T_returned"
    /\ pc' = "idle"
    /\ terminated' = TRUE
    /\ entry' = NoEntry
    /\ trace' = <<>>
    /\ gc_count' = 0
    /\ more_termination_gcs_needed' = FALSE
    /\ UNCHANGED <<buildVars, bystanderVars, in_atomic_pause_, scopeVars, is_marking,
                   nodes_in_use, region_lock, sweeperVars, allocatorVars,
                   stats, bytes_allocated_in_prefinalizers, result,
                   abort_site>>


\* ------------------------------------------------ HeapBase::CollectStatistics
StatFrame == <<buildVars, bystanderVars, in_atomic_pause_, scopeVars, is_marking,
               nodes_in_use, region_lock, bytes_allocated_in_prefinalizers,
               loopVars, callVars>>

\* Mutant: the resident size and the allocated object size are swapped.
BriefStatistics_Swapped(st) ==
    [committed_size_bytes |-> st.allocated_memory_size,
     resident_size_bytes |-> st.allocated_object_size,
     used_size_bytes |-> st.resident_memory_size,
     detail_level |-> "kBrief"]

\* The three counters a HeapStatistics is built from, in field order:
\* committed_size_bytes, resident_size_bytes, used_size_bytes.
BriefStatistics(st) ==
    [committed_size_bytes |-> st.allocated_memory_size,
     resident_size_bytes |-> st.resident_memory_size,
     used_size_bytes |-> st.allocated_object_size,
     detail_level |-> "kBrief"]

\* detail_level == kBrief: return the collector's three counters.
\* The caller may take a second snapshot right after the first returned;
\* result.previous is then the first one.
CollectStatistics_Brief ==
    /\ pc = "idle" \/ (pc = "S_returned" /\ result.kind = "brief")
    /\ pc' = "S_returned"
    /\ trace' = <<>>
    /\ result' = [kind |-> "brief",
                  value |-> BriefStatistics(stats),
                  previous |-> IF result.kind = "brief" THEN <<result.value>>
                                                        ELSE <<>>]
    /\ UNCHANGED <<StatFrame, sweeperVars, allocatorVars, stats>>

\* detail_level == kDetailed: the call.
CollectStatistics_Detailed ==
    /\ pc = "idle"
    /\ pc' = "S_finish"
    /\ trace' = << <<"CollectStatistics", "kDetailed", sweeper_in_progress,
                     {s \in Spaces : lab[s] # 0}>> >>
    /\ result' = NoResult
    /\ UNCHANGED <<StatFrame, sweeperVars, allocatorVars, stats>>

\* Mutant: the statistics do not wait for the sweep in flight.
CollectStatistics_FinishIfRunning_NoJoin ==
    /\ pc = "S_finish"
    /\ pc' = "S_reset_labs"
    /\ trace' = Append(trace, <<"FinishIfRunning">>)
    /\ UNCHANGED <<StatFrame, sweeperVars, allocatorVars, stats, result>>

\* sweeper_.FinishIfRunning();
CollectStatistics_FinishIfRunning ==
    /\ pc = "S_finish"
    /\ FinishIfRunningReturns
    /\ pc' = "S_reset_labs"
    /\ trace' = Append(trace, <<"FinishIfRunning">>)
    /\ UNCHANGED <<StatFrame, sweeperVars, allocatorVars, stats, result>>

\* object_allocator_.ResetLinearAllocationBuffers();
CollectStatistics_ResetLinearAllocationBuffers ==
    /\ pc = "S_reset_labs"
    /\ pc' = "S_collect"
    /\ lab' = ResetLinearAllocationBuffers(lab)
    /\ trace' = Append(trace, <<"ResetLinearAllocationBuffers">>)
    /\ UNCHANGED <<StatFrame, sweeperVars, allocator_terminated, stats,
                   result>>

\* return HeapStatisticsCollector().CollectDetailedStatistics(this);
\* The aggregation walks the spaces; what it saw of the sweeper and of the
\* LABs is kept in the result.
CollectStatistics_CollectDetailed ==
    /\ pc = "S_collect"
    /\ pc' = "S_returned"
    /\ trace' = Append(trace, <<"CollectDetailedStatistics">>)
    /\ result' = [kind |-> "detailed",
                  value |-> [BriefStatistics(stats) EXCEPT
                                 !.detail_level = "kDetailed"],
                  sweep_in_flight |-> sweeper_in_progress,
                  open_labs |-> {s \in Spaces : lab[s] # 0}]
    /\ UNCHANGED <<StatFrame, sweeperVars, allocatorVars, stats>>

\* CollectStatistics() returns to its caller.
CollectStatistics_Return ==
    /\ pc = "S_returned"
    /\ pc' = "idle"
    /\ trace' = <<>>
    /\ result' = NoResult
    /\ UNCHANGED <<StatFrame, sweeperVars, allocatorVars, stats>>

\* ------------------------------------------------------------ specification
Mutator ==
    \/ \E r \in Regions : RegisterRoot(r)
    \/ EnterDisallowGarbageCollectionScope
    \/ LeaveDisallowGarbageCollectionScope
    \/ StartMarking
    \/ FinishMarking
    \/ \E s \in Spaces, n \in 0..MaxBytes : Allocate(s, n)
    \/ \E st \in StatsValues : AccountAllocation(st)

Terminate ==
    \/ \E dchecks \in BuildsOf(dcheck_enabled) : Terminate_Entry(dchecks)
    \/ Terminate_FinishIfRunning
    \/ Terminate_LoopHead
    \/ Terminate_Clear("strong_persistent_region_",
                       "T_clear_strong", "T_clear_weak")
    \/ Terminate_Clear("weak_persistent_region_",
                       "T_clear_weak", "T_clear_lock")
    \/ Terminate_Lock("T_clear_lock", "T_clear_strong_ct")
    \/ Terminate_Clear("strong_cross_thread_persistent_region_",
                       "T_clear_strong_ct", "T_clear_weak_ct")
    \/ Terminate_Clear("weak_cross_thread_persistent_region_",
                       "T_clear_weak_ct", "T_clear_unlock")
    \/ Terminate_Unlock("T_clear_unlock", "T_pause_on")
    \/ Terminate_EnterAtomicPause
    \/ Terminate_NotifyMarkingStarted
    \/ Terminate_ResetLinearAllocationBuffers
    \/ Terminate_NotifyMarkingCompleted
    \/ \E allow \in BuildsOf(allow_alloc_prefin) :
           ExecutePreFinalizers_EnterScope(allow)
    \/ \E r \in Resurrections, b \in PrefinalizerAllocations :
           ExecutePreFinalizers_Invoke(r, b)
    \/ ExecutePreFinalizers_Return
    \/ \E r \in Resurrections : Terminate_SweeperStart(r)
    \/ Terminate_LeaveAtomicPause
    \/ Terminate_NotifyDoneIfNeeded
    \/ Terminate_Recheck("strong_persistent_region_",
                         "T_recheck_strong", "T_more_true", "T_recheck_weak")
    \/ Terminate_Recheck("weak_persistent_region_",
                         "T_recheck_weak", "T_more_true", "T_recheck_lock")
    \/ Terminate_Lock("T_recheck_lock", "T_recheck_strong_ct")
    \/ Terminate_Recheck("strong_cross_thread_persistent_region_",
                         "T_recheck_strong_ct", "T_recheck_unlock_hit",
                         "T_recheck_weak_ct")
    \/ Terminate_Recheck("weak_cross_thread_persistent_region_",
                         "T_recheck_weak_ct", "T_recheck_unlock_hit",
                         "T_recheck_unlock_miss")
    \/ Terminate_Unlock("T_recheck_unlock_hit", "T_more_true")
    \/ Terminate_Unlock("T_recheck_unlock_miss", "T_more_false")
    \/ Terminate_AssignMore("T_more_true", TRUE)
    \/ Terminate_AssignMore("T_more_false", FALSE)
    \/ Terminate_While
    \/ Terminate_AllocatorTerminate
    \/ Terminate_DisallowGc
    \/ Terminate_FinalCheck("strong_persistent_region_",
                            "T_check_strong", "T_check_weak")
    \/ Terminate_FinalCheck("weak_persistent_region_",
                            "T_check_weak", "T_check_strong_ct")
    \/ Terminate_FinalCheck("strong_cross_thread_persistent_region_",
                            "T_check_strong_ct", "T_check_weak_ct")
    \/ Terminate_FinalCheck("weak_cross_thread_persistent_region_",
                            "T_check_weak_ct", "T_returned")
    \/ Terminate_Return

CollectStatistics ==
    \/ CollectStatistics_Brief
    \/ CollectStatistics_Detailed
    \/ CollectStatistics_FinishIfRunning
    \/ CollectStatistics_ResetLinearAllocationBuffers
    \/ CollectStatistics_CollectDetailed
    \/ CollectStatistics_Return

Next == Mutator \/ SweepFinishes \/ Terminate \/ CollectStatistics

Spec == Init /\ [][Next]_vars

\* ------------------------------------------------------- a second thread
\* Another thread creates cross-thread handles to objects of this heap: it
\* takes the PersistentRegionLock, registers a slot in one of the two
\* cross-thread regions and releases the lock.

OtherFrame == <<buildVars, youngVars, raw_heap, in_atomic_pause_, scopeVars,
                is_marking, sweeperVars, allocatorVars, stats,
                bytes_allocated_in_prefinalizers, pc, loopVars, callVars,
                trace, result>>

\* PersistentRegionLock guard; on the other thread.
OtherThread_Lock ==
    /\ other_pc = "idle"
    /\ region_lock = "none"
    /\ \E r \in CrossThreadRegions : nodes_in_use[r] < MaxNodes
    /\ region_lock' = "other"
    /\ other_pc' = "locked"
    /\ UNCHANGED <<OtherFrame, nodes_in_use>>

\* The slot is taken from the region.
OtherThread_Register(r) ==
    /\ other_pc = "locked"
    /\ nodes_in_use[r] < MaxNodes
    /\ nodes_in_use' = RegisterNode(nodes_in_use, r)
    /\ other_pc' = "registered"
    /\ UNCHANGED <<OtherFrame, region_lock>>

\* The guard goes out of scope.
OtherThread_Unlock ==
    /\ other_pc = "registered"
    /\ region_lock' = "none"
    /\ other_pc' = "idle"
    /\ UNCHANGED <<OtherFrame, nodes_in_use>>

OtherThread ==
    \/ OtherThread_Lock
    \/ \E r \in CrossThreadRegions : OtherThread_Register(r)
    \/ OtherThread_Unlock

NextMT == (\E r \in Regions : RegisterRoot(r)) \/ Terminate \/ OtherThread

\* Terminate() on the owning thread while a second thread registers
\* cross-thread roots.
SpecMT == Init /\ [][NextMT]_vars

\* ------------------------------------------------------------- progress
\* A step of a call of Terminate() that is under way.
TerminateStep == Terminate /\ pc # "idle"

NextLive ==
    \/ \E r \in Regions : RegisterRoot(r)
    \/ StartMarking
    \/ FinishMarking
    \/ SweepFinishes
    \/ Terminate
    \/ OtherThread

\* The owning thread keeps executing a call it has started, and gets the
\* lock if the lock is free again and again; a sweep in flight finishes; the
\* other thread completes a registration it has started and releases the
\* lock.
SpecLive ==
    /\ Init
    /\ [][NextLive]_vars
    /\ SF_vars(TerminateStep)
    /\ WF_vars(SweepFinishes)
    /\ WF_vars(\E r \in CrossThreadRegions : OtherThread_Register(r))
    /\ WF_vars(OtherThread_Unlock)

\* -------------------------------------- a pre-finalizer that keeps a scope
\* A pre-finalizer callback may call DisallowGarbageCollectionScope::Enter()
\* and not Leave(): the scope stays active when ExecutePreFinalizers() has
\* returned.
ExecutePreFinalizers_InvokeEnteringScope(r, b) ==
    /\ pc = "T_prefinalizers_invoke"
    /\ r \in CrossThreadRegions => region_lock = "none"
    /\ scopes_open < MaxScopes
    /\ pc' = "T_prefinalizers_extract"
    /\ nodes_in_use' = Resurrect(nodes_in_use, r)
    /\ bytes_allocated_in_prefinalizers' = b
    /\ disallow_gc_scope_' = disallow_gc_scope_ + 1
    /\ scopes_open' = scopes_open + 1
    /\ trace' = Append(trace, <<"ExecutePreFinalizers">>)
    /\ UNCHANGED <<buildVars, bystanderVars, is_marking, stats, terminated,
                   in_atomic_pause_, region_lock, sweeperVars, allocatorVars,
                   loopVars, entry, abort_site, no_gc_scope_, result>>

NextLS ==
    \/ \E r \in Regions : RegisterRoot(r)
    \/ Terminate
    \/ \E r \in Resurrections, b \in PrefinalizerAllocations :
           ExecutePreFinalizers_InvokeEnteringScope(r, b)

\* Terminate() with pre-finalizers that may leave a disallow-GC scope active.
SpecLS == Init /\ [][NextLS]_vars

\* ------------------------------------------ HeapBase::ResetRememberedSet
\* Generational configuration (CPPGC_YOUNG_GENERATION): the age table and
\* the remembered set exist, and the owning thread may reset them.

YoungFrame == <<allow_alloc_prefin, in_atomic_pause_, scopeVars, is_marking,
                nodes_in_use, region_lock, sweeperVars, allocatorVars, stats,
                bytes_allocated_in_prefinalizers, loopVars, entry, terminated,
                trace, raw_heap, other_pc>>

\* A young object is allocated: its cards get an age in the age table.
AgeTableSetAge ==
    /\ pc = "idle"
    /\ ~allocator_terminated
    /\ age_table = "reset"
    /\ age_table' = "set"
    /\ result' = NoResult
    /\ UNCHANGED <<YoungFrame, dcheck_enabled, pc, abort_site, remembered_set>>

\* The write barrier records a slot of an old object that points to a young
\* one.
RememberedSetAddSlot ==
    /\ pc = "idle"
    /\ remembered_set < MaxSlots
    /\ remembered_set' = remembered_set + 1
    /\ result' = NoResult
    /\ UNCHANGED <<YoungFrame, dcheck_enabled, pc, abort_site, age_table>>

\* Mutant: the visitor assigns instead of accumulating, so only the space
\* visited last counts.
AllLABsAreEmpty_LastSpaceOnly(labs) == labs["space1"] = 0

\* AllLABsAreEmpty: some_lab_is_set_ starts false and every normal-page
\* space ors in whether its linear_allocation_buffer().size() is non-zero;
\* value() is the negation.
AllLABsAreEmpty(labs) == ~(\E s \in Spaces : labs[s] # 0)

\* DCHECK(AllLABsAreEmpty(raw_heap()).value()): evaluated only in a build
\* with DCHECKs on.
ResetRememberedSetCheckFails(dchecks) ==
    dchecks = "on" /\ ~AllLABsAreEmpty(lab)

\* The call, and the DCHECK.
ResetRememberedSet_Entry(dchecks) ==
    /\ pc = "idle"
    /\ dcheck_enabled' = dchecks
    /\ result' = NoResult
    /\ IF ResetRememberedSetCheckFails(dchecks)
         THEN pc' = "aborted" /\ abort_site' = "labs_check"
         ELSE pc' = "R_age_table" /\ UNCHANGED abort_site
    /\ UNCHANGED <<YoungFrame, youngVars>>

\* caged_heap().local_data().age_table.Reset(&caged_heap().allocator());
ResetRememberedSet_AgeTableReset ==
    /\ pc = "R_age_table"
    /\ pc' = "R_remembered_set"
    /\ age_table' = "reset"
    /\ UNCHANGED <<YoungFrame, dcheck_enabled, abort_site, remembered_set,
                   result>>

\* remembered_set_.Reset();
ResetRememberedSet_RememberedSetReset ==
    /\ pc = "R_remembered_set"
    /\ pc' = "R_returned"
    /\ remembered_set' = 0
    /\ UNCHANGED <<YoungFrame, dcheck_enabled, abort_site, age_table, result>>

ResetRememberedSet_Return ==
    /\ pc = "R_returned"
    /\ pc' = "idle"
    /\ UNCHANGED <<YoungFrame, dcheck_enabled, abort_site, youngVars, result>>

YoungMutator == AgeTableSetAge \/ RememberedSetAddSlot

ResetRememberedSet ==
    \/ \E dchecks \in BuildsOf(dcheck_enabled) : ResetRememberedSet_Entry(dchecks)
    \/ ResetRememberedSet_AgeTableReset
    \/ ResetRememberedSet_RememberedSetReset
    \/ ResetRememberedSet_Return

NextYG ==
    \/ \E s \in Spaces, n \in 0..MaxBytes : Allocate(s, n)
    \/ StartMarking
    \/ FinishMarking
    \/ SweepFinishes
    \/ YoungMutator
    \/ ResetRememberedSet

\* The generational configuration, between collections.
SpecYG == Init /\ [][NextYG]_vars


\* ------------------------------------------------------------- positions
\* The statements of one loop iteration, from the first ClearAllUsedNodes()
\* to the } while.
LoopBodyPcs ==
    {"T_clear_strong", "T_clear_weak", "T_clear_lock", "T_clear_strong_ct",
     "T_clear_weak_ct", "T_clear_unlock", "T_pause_on", "T_marking_started",
     "T_reset_labs", "T_marking_completed", "T_prefinalizers_scope",
     "T_prefinalizers_invoke", "T_prefinalizers_extract", "T_sweeper_start",
     "T_pause_off", "T_notify_done", "T_recheck_strong", "T_recheck_weak",
     "T_recheck_lock", "T_recheck_strong_ct", "T_recheck_weak_ct",
     "T_recheck_unlock_hit", "T_recheck_unlock_miss", "T_more_true",
     "T_more_false", "T_while"}
\* The statements after the loop, and the return.
AfterLoopPcs ==
    {"T_allocator_terminate", "T_disallow_gc", "T_check_strong",
     "T_check_weak", "T_check_strong_ct", "T_check_weak_ct", "T_returned"}
\* Everywhere inside Terminate() past the checks on entry.
InTerminatePcs == {"T_finish", "T_loop"} \cup LoopBodyPcs \cup AfterLoopPcs

SomeRegionInUse == \E r \in Regions : nodes_in_use[r] # 0
AllRegionsEmpty == \A r \in Regions : nodes_in_use[r] = 0

\* ================================================================== claims

\* C1: whatever roots were registered before Terminate() and whatever roots
\* pre-finalizers or the sweep resurrected during it, from the moment the
\* loop is left until Terminate() returns normally all four persistent
\* regions report zero slots in use.
C1_RegionsEmptyOnReturn ==
    pc \in AfterLoopPcs => AllRegionsEmpty

\* Terminate() has returned normally after an iteration that ended with a
\* resurrected root (it took more than one iteration).
C1_Witness ==
    pc = "T_returned" /\ gc_count >= 2 /\ AllRegionsEmpty


\* C2: Terminate() runs at most kMaxTerminationGCs = 20 loop iterations. The
\* body of the loop only ever executes as iteration 1..20; after a 20th
\* iteration that ends with every region empty the loop is left and the call
\* goes on to return; after a 20th iteration that ends with a region in use
\* the process aborts at the head of the 21st iteration, before any root is
\* cleared or any other step of that iteration runs.
C2_AtMostTwentyIterations ==
    /\ pc \in LoopBodyPcs => gc_count \in 1..kMaxTerminationGCs
    /\ pc \in AfterLoopPcs =>
          /\ gc_count \in 1..kMaxTerminationGCs
          /\ ~more_termination_gcs_needed
    /\ (pc = "aborted" /\ abort_site = "gc_count") =>
          /\ gc_count = kMaxTerminationGCs + 1
          /\ more_termination_gcs_needed
          /\ SomeRegionInUse
          /\ trace = <<>>
          /\ ~in_atomic_pause_
    /\ abort_site # "final_check"

\* The process has aborted on the iteration bound: 20 iterations each ended
\* with a resurrected root.
C2_Witness ==
    /\ pc = "aborted"
    /\ abort_site = "gc_count"
    /\ gc_count = kMaxTerminationGCs + 1
    /\ SomeRegionInUse

\* C3: the loop repeats if and only if at least one of the four regions has
\* a slot in use at the end-of-iteration re-check: at the } while the flag
\* equals "some region in use", the loop head is re-entered only with the
\* flag set and a region in use, and the loop is left only with every region
\* empty. Roots seen by the re-check were resurrected in that iteration (the
\* regions are empty between the clear and the pre-finalizers), so k
\* iterations ending with a resurrected root followed by one without give
\* exactly k+1 iterations.
C3_RepeatsIffRegionInUse ==
    /\ pc = "T_while" => (more_termination_gcs_needed <=> SomeRegionInUse)
    /\ (pc = "T_loop" /\ gc_count >= 1) =>
          more_termination_gcs_needed /\ SomeRegionInUse
    /\ pc = "T_allocator_terminate" =>
          ~more_termination_gcs_needed /\ AllRegionsEmpty
    /\ pc \in {"T_pause_on", "T_marking_started", "T_reset_labs",
               "T_marking_completed", "T_prefinalizers_scope",
               "T_prefinalizers_invoke"} => AllRegionsEmpty

\* Two iterations ended with a resurrected root, the third with none: the
\* loop is left after exactly 3 iterations.
C3_Witness ==
    /\ pc = "T_allocator_terminate"
    /\ gc_count = 3
    /\ AllRegionsEmpty


\* What an abort on entry must leave as it was: the regions and their lock,
\* the sweeper, the allocator, the statistics and the coordinator's fields.
HeapState == <<nodes_in_use, region_lock, sweeperVars, allocatorVars, stats,
               in_atomic_pause_, scopeVars, is_marking,
               bytes_allocated_in_prefinalizers>>

\* C4 as stated: Terminate() called while marking is in progress or while a
\* disallow-GC scope is active aborts, so the call never gets past its entry
\* checks in such a state. (Nothing inside Terminate() changes is_marking.)
C4_AbortsWhenMarkingOrScope ==
    pc \in InTerminatePcs => ~is_marking /\ entry.disallow_gc_scope = 0

\* C4, amended: Terminate() called while a disallow-GC scope is active aborts
\* in every build (CHECK); called while marking is in progress it aborts in
\* a build with DCHECKs on, and in a build without them it goes on. An abort
\* on entry happens only for one of these two reasons and before any region
\* is cleared, the sweeper touched, a statistics notification sent or the
\* atomic-pause flag changed.
C4_EntryCheck ==
    /\ [](/\ pc \in InTerminatePcs =>
                /\ entry.disallow_gc_scope = 0
                /\ dcheck_enabled = "on" => ~is_marking
          /\ (pc = "aborted" /\ abort_site = "entry_check") =>
                /\ in_disallow_gc_scope \/ (is_marking /\ dcheck_enabled = "on")
                /\ trace = <<>>
                /\ ~in_atomic_pause_)
    /\ [][(pc = "idle" /\ pc' = "aborted") => UNCHANGED HeapState]_vars

\* A DCHECK build has aborted a call made while marking was in progress,
\* with roots registered and no scope active.
C4_Witness ==
    /\ pc = "aborted"
    /\ abort_site = "entry_check"
    /\ is_marking
    /\ dcheck_enabled = "on"
    /\ ~in_disallow_gc_scope
    /\ SomeRegionInUse


\* Some root region has been cleared in the current iteration.
ClearLogged == \E i \in 1..Len(trace) : trace[i][1] = "ClearAllUsedNodes"

\* C5: Terminate() called while a sweep is in flight stays in the sweeper's
\* FinishIfRunning() join until that sweep has finished, and a root region is
\* cleared only after that: no region has been cleared while the call is in
\* the join, and from the return of the join on no sweep is in flight.
C5_ClearAfterSweepFinished ==
    /\ [](/\ pc \in InTerminatePcs \ {"T_finish"} => ~sweeper_in_progress
          /\ ClearLogged => ~sweeper_in_progress
          /\ pc = "T_finish" => trace = <<>>)
    /\ [][(pc = "T_finish" /\ sweeper_in_progress) =>
              (pc' = "T_finish" /\ nodes_in_use' = nodes_in_use)]_vars

\* Terminate() was called with a sweep in flight, has come back from the
\* join and has cleared the first root region.
C5_Witness ==
    /\ Len(trace) >= 2
    /\ trace[1][1] = "FinishIfRunning"
    /\ trace[1][2] = TRUE
    /\ trace[2][1] = "ClearAllUsedNodes"
    /\ ~sweeper_in_progress


\* The steps of one iteration in the order C6 gives them; the re-check is
\* the chain of NodesInUse() reads, cut short by the first non-zero one.
IterationOrder ==
    << <<"ClearAllUsedNodes", "strong_persistent_region_">>,
       <<"ClearAllUsedNodes", "weak_persistent_region_">>,
       <<"ClearAllUsedNodes", "strong_cross_thread_persistent_region_">>,
       <<"ClearAllUsedNodes", "weak_cross_thread_persistent_region_">>,
       <<"NotifyMarkingStarted", "kMajor", "kForced">>,
       <<"ResetLinearAllocationBuffers">>,
       <<"NotifyMarkingCompleted", 0>>,
       <<"ExecutePreFinalizers">>,
       <<"SweeperStart", "kAtomic", "kSweep">>,
       <<"NotifyDoneIfNeeded">>,
       <<"NodesInUse", "strong_persistent_region_">>,
       <<"NodesInUse", "weak_persistent_region_">>,
       <<"NodesInUse", "strong_cross_thread_persistent_region_">>,
       <<"NodesInUse", "weak_cross_thread_persistent_region_">> >>

\* The steps logged in the current iteration (the first iteration's log
\* starts with the FinishIfRunning() call that precedes the loop).
IterationTrace ==
    IF trace # <<>> /\ trace[1][1] = "FinishIfRunning" THEN Tail(trace)
                                                        ELSE trace

\* How many steps of IterationOrder have run when the owning thread is at
\* the given statement of the loop body.
StepsBefore ==
    [p \in LoopBodyPcs |->
        CASE p = "T_clear_strong" -> {0}
          [] p = "T_clear_weak" -> {1}
          [] p \in {"T_clear_lock", "T_clear_strong_ct"} -> {2}
          [] p = "T_clear_weak_ct" -> {3}
          [] p \in {"T_clear_unlock", "T_pause_on", "T_marking_started"} -> {4}
          [] p = "T_reset_labs" -> {5}
          [] p = "T_marking_completed" -> {6}
          [] p \in {"T_prefinalizers_scope", "T_prefinalizers_invoke"} -> {7}
          [] p \in {"T_prefinalizers_extract", "T_sweeper_start"} -> {8}
          [] p \in {"T_pause_off", "T_notify_done"} -> {9}
          [] p = "T_recheck_strong" -> {10}
          [] p = "T_recheck_weak" -> {11}
          [] p \in {"T_recheck_lock", "T_recheck_strong_ct"} -> {12}
          [] p = "T_recheck_weak_ct" -> {13}
          [] p = "T_recheck_unlock_miss" -> {14}
          [] p = "T_more_false" -> {14}
          [] p = "T_recheck_unlock_hit" -> {13, 14}
          [] p = "T_more_true" -> {11, 12, 13, 14}
          [] p = "T_while" -> {11, 12, 13, 14}]

\* C6: in every iteration of Terminate() the steps run in the order
\* clear the four regions, NotifyMarkingStarted(kMajor, kForced),
\* ResetLinearAllocationBuffers(), NotifyMarkingCompleted(0),
\* ExecutePreFinalizers(), Sweeper::Start(kAtomic, kSweep),
\* NotifyDoneIfNeeded(), re-check of the slot counts, each exactly once: what
\* has run so far in the iteration is always an initial part of that order,
\* as long as the position in the loop body says.
C6_IterationStepOrder ==
    pc \in LoopBodyPcs =>
        /\ Len(IterationTrace) \in StepsBefore[pc]
        /\ IterationTrace = SubSeq(IterationOrder, 1, Len(IterationTrace))

\* The second iteration has run all its steps; its re-check read all four
\* regions.
C6_Witness ==
    /\ pc = "T_while"
    /\ gc_count = 2
    /\ trace = IterationOrder


\* The DisallowGarbageCollectionScope of ExecutePreFinalizers() is open.
InPreFinalizerDisallowScope ==
    /\ pc \in {"T_prefinalizers_invoke", "T_prefinalizers_extract"}
    /\ allow_alloc_prefin = "off"

C8_TerminationIsTerminal ==
    /\ [](terminated =>
            /\ pc \notin InTerminatePcs
            /\ in_disallow_gc_scope
            /\ ~in_atomic_pause_
            /\ pc = "aborted" => (abort_site = "entry_check" /\ trace = <<>>))
    /\ [][(terminated /\ entry'.called) =>
              (pc' = "aborted" /\ UNCHANGED HeapState)]_vars

\* After a completed termination Terminate() was called again, with a root
\* registered in between, and the process has aborted.
C8_Witness ==
    /\ terminated
    /\ pc = "aborted"
    /\ abort_site = "entry_check"
    /\ SomeRegionInUse


\* A brief snapshot has just been produced by this step.
BriefSnapshotTaken ==
    pc' = "S_returned" /\ result'.kind = "brief" /\ result' # result

\* C9: CollectStatistics(kBrief) returns the stats collector's current
\* allocated_memory_size, resident_memory_size and allocated_object_size,
\* in that order; it calls neither FinishIfRunning() nor
\* ResetLinearAllocationBuffers() and changes nothing of the coordinator,
\* the sweeper, the allocator or the counters; a second snapshot taken right
\* after the first equals it, also while a sweep is in flight.
C9_BriefStatisticsIsPureRead ==
    /\ []((pc = "S_returned" /\ result.kind = "brief") =>
            /\ result.value.committed_size_bytes = stats.allocated_memory_size
            /\ result.value.resident_size_bytes = stats.resident_memory_size
            /\ result.value.used_size_bytes = stats.allocated_object_size
            /\ result.value.detail_level = "kBrief"
            /\ trace = <<>>
            /\ result.previous # <<>> => result.previous[1] = result.value)
    /\ [][BriefSnapshotTaken => UNCHANGED HeapState]_vars

\* A second brief snapshot has been taken right after a first one, with a
\* sweep in flight, an open LAB, and counters that tell the three fields
\* apart.
C9_Witness ==
    /\ pc = "S_returned"
    /\ result.kind = "brief"
    /\ result.previous # <<>>
    /\ sweeper_in_progress
    /\ \E s \in Spaces : lab[s] # 0
    /\ stats.allocated_memory_size # stats.resident_memory_size
    /\ stats.resident_memory_size # stats.allocated_object_size

\* C10: CollectStatistics(kDetailed) performs, in this order,
\* sweeper_.FinishIfRunning(), ResetLinearAllocationBuffers() and the
\* detailed aggregation; the aggregation starts, and runs, with no sweep in
\* flight and every LAB empty.
C10_DetailedStatisticsOrder ==
    /\ pc = "S_finish" => Len(trace) = 1
    /\ pc = "S_reset_labs" =>
          /\ Len(trace) = 2 /\ trace[2] = <<"FinishIfRunning">>
          /\ ~sweeper_in_progress
    /\ pc = "S_collect" =>
          /\ Len(trace) = 3
          /\ trace[2] = <<"FinishIfRunning">>
          /\ trace[3] = <<"ResetLinearAllocationBuffers">>
          /\ ~sweeper_in_progress
          /\ \A s \in Spaces : lab[s] = 0
    /\ (pc = "S_returned" /\ result.kind = "detailed") =>
          /\ Len(trace) = 4
          /\ trace[2] = <<"FinishIfRunning">>
          /\ trace[3] = <<"ResetLinearAllocationBuffers">>
          /\ trace[4] = <<"CollectDetailedStatistics">>
          /\ ~result.sweep_in_flight
          /\ result.open_labs = {}

\* Detailed statistics were asked for with a sweep in flight and both LABs
\* open, and have been returned.
C10_Witness ==
    /\ pc = "S_returned"
    /\ result.kind = "detailed"
    /\ trace[1][3] = TRUE
    /\ trace[1][4] = Spaces


\* The pre-finalizer callbacks are running, or have run and
\* ExecutePreFinalizers() has not returned yet.
InExecutePreFinalizers ==
    pc \in {"T_prefinalizers_invoke", "T_prefinalizers_extract"}

\* C11: during ExecutePreFinalizers() the callbacks run inside a scope that
\* forbids starting a collection: a DisallowGarbageCollectionScope in the
\* default build (disallow_gc_scope_ > 0), a NoGarbageCollectionScope in a
\* build that allows allocation in pre-finalizers. When the call returns the
\* scope has been left, both depths are what they were on entry, and the
\* value returned is the registry's count of bytes allocated in the
\* invocation.
C11_PreFinalizersInsideScope ==
    /\ [](InExecutePreFinalizers =>
            /\ allow_alloc_prefin = "off" =>
                  /\ disallow_gc_scope_ = entry.disallow_gc_scope + 1
                  /\ no_gc_scope_ = 0
                  /\ in_disallow_gc_scope
            /\ allow_alloc_prefin = "on" =>
                  /\ no_gc_scope_ = 1
                  /\ disallow_gc_scope_ = entry.disallow_gc_scope
            /\ allow_alloc_prefin # "undetermined")
    /\ [](pc \in {"T_prefinalizers_scope", "T_sweeper_start"} =>
            /\ disallow_gc_scope_ = entry.disallow_gc_scope
            /\ no_gc_scope_ = 0)
    /\ [](pc = "T_sweeper_start" =>
            /\ result.kind = "prefinalizers"
            /\ bytes_allocated_in_prefinalizers = 0)
    /\ [][pc = "T_prefinalizers_extract" =>
              result'.value = bytes_allocated_in_prefinalizers]_vars

\* ExecutePreFinalizers() has returned a non-zero byte count, in a build
\* that allows allocation in pre-finalizers, after a callback registered a
\* root.
C11_Witness ==
    /\ pc = "T_sweeper_start"
    /\ result.kind = "prefinalizers"
    /\ result.value > 0
    /\ allow_alloc_prefin = "on"
    /\ SomeRegionInUse


\* ResetRememberedSet() is past its precondition check.
InResetRememberedSet == pc \in {"R_age_table", "R_remembered_set", "R_returned"}

\* --------------------------------------------- HeapBase::ObjectPayloadSize
\* The heap as a HeapVisitor walks it: the spaces in order, the pages of a
\* space in order, the object headers of a page in order. A header has a
\* size and is either an object or a free-list entry.

SpaceOrder == <<"space0", "space1">>

HeaderCount(heap) ==
    LET PageCount(pages) == [i \in 1..Len(pages) |-> Len(pages[i])]
        RECURSIVE Total(_)
        Total(q) == IF q = <<>> THEN 0 ELSE Head(q) + Total(Tail(q))
    IN Total(PageCount(heap["space0"])) + Total(PageCount(heap["space1"]))

PayloadFrame == <<buildVars, youngVars, other_pc, in_atomic_pause_, scopeVars,
                  is_marking, nodes_in_use, region_lock, sweeperVars,
                  allocatorVars, stats, bytes_allocated_in_prefinalizers,
                  loopVars, callVars, trace>>

\* An object of the given size is allocated in a space: its header goes to
\* the end of the space's last page, or to a new page.
AllocateObject(s, size, new_page) ==
    /\ pc = "idle"
    /\ HeaderCount(raw_heap) < MaxObjects
    /\ new_page \/ raw_heap[s] # <<>>
    /\ LET header == [size |-> size, free |-> FALSE]
           pages == raw_heap[s]
       IN raw_heap' = [raw_heap EXCEPT ![s] =
               IF new_page
                 THEN Append(pages, <<header>>)
                 ELSE [pages EXCEPT ![Len(pages)] = Append(@, header)]]
    /\ result' = NoResult
    /\ UNCHANGED <<PayloadFrame, pc>>

\* An object is reclaimed: its header becomes a free-list entry.
FreeObject(s, p, i) ==
    /\ pc = "idle"
    /\ p \in 1..Len(raw_heap[s])
    /\ i \in 1..Len(raw_heap[s][p])
    /\ ~raw_heap[s][p][i].free
    /\ raw_heap' = [raw_heap EXCEPT ![s][p][i].free = TRUE]
    /\ result' = NoResult
    /\ UNCHANGED <<PayloadFrame, pc>>

\* ObjectSizeCounter::ObjectSize: ObjectView<>(header).Size().
ObjectSize(header) == header.size

\* Mutant: free-list entries are counted as well.
VisitHeapObjectHeader_CountsFree(accumulated_size_, header) ==
    accumulated_size_ + ObjectSize(header)

\* ObjectSizeCounter::VisitHeapObjectHeader: the accumulator after the visit.
VisitHeapObjectHeader(accumulated_size_, header) ==
    IF header.free THEN accumulated_size_
                   ELSE accumulated_size_ + ObjectSize(header)

\* HeapVisitor::Traverse over the headers of a page, the pages of a space,
\* the spaces of the heap, threading the accumulator through.
RECURSIVE TraversePage(_, _)
TraversePage(accumulated_size_, headers) ==
    IF headers = <<>> THEN accumulated_size_
    ELSE TraversePage(VisitHeapObjectHeader(accumulated_size_, Head(headers)),
                      Tail(headers))

RECURSIVE TraverseSpace(_, _)
TraverseSpace(accumulated_size_, pages) ==
    IF pages = <<>> THEN accumulated_size_
    ELSE TraverseSpace(TraversePage(accumulated_size_, Head(pages)),
                       Tail(pages))

RECURSIVE TraverseHeap(_, _, _)
TraverseHeap(accumulated_size_, heap, spaces) ==
    IF spaces = <<>> THEN accumulated_size_
    ELSE TraverseHeap(TraverseSpace(accumulated_size_, heap[Head(spaces)]),
                      heap, Tail(spaces))

\* ObjectSizeCounter().GetSize(raw_heap()): a new counter, whose
\* accumulated_size_ is 0, traverses the heap.
GetSize(heap) == TraverseHeap(0, heap, SpaceOrder)

\* size_t HeapBase::ObjectPayloadSize() const. A second call may follow the
\* first at once.
ObjectPayloadSize ==
    /\ \/ pc = "idle"
       \/ pc = "O_returned" /\ result.previous = <<>>
    /\ pc' = "O_returned"
    /\ result' = [kind |-> "payload",
                  value |-> GetSize(raw_heap),
                  previous |-> IF pc = "idle" THEN <<>> ELSE <<result.value>>]
    /\ UNCHANGED <<PayloadFrame, raw_heap>>

ObjectPayloadSize_Return ==
    /\ pc = "O_returned"
    /\ pc' = "idle"
    /\ result' = NoResult
    /\ UNCHANGED <<PayloadFrame, raw_heap>>

NextOPS ==
    \/ \E s \in Spaces, size \in 1..MaxObjectSize, new_page \in BOOLEAN :
           AllocateObject(s, size, new_page)
    \/ \E s \in Spaces, p \in 1..MaxObjects, i \in 1..MaxObjects :
           FreeObject(s, p, i)
    \/ ObjectPayloadSize
    \/ ObjectPayloadSize_Return

\* The owning thread allocating, reclaiming and measuring objects.
SpecOPS == Init /\ [][NextOPS]_vars

\* linear_allocation_buffer().size() is 0 in every normal-page space.
EveryLabEmpty == \A s \in Spaces : lab[s] = 0

\* C12 as stated: ResetRememberedSet() fails its precondition whenever some
\* normal-page space has a non-empty LAB, so it never gets past the check
\* with such a LAB.
C12_FailsWheneverSomeLabIsSet ==
    InResetRememberedSet => EveryLabEmpty

\* C12: in a build with DCHECKs on, ResetRememberedSet() called with some
\* LAB non-empty aborts and leaves the age table and the remembered set as
\* they were; in a build without DCHECKs the check is not evaluated and the
\* call goes ahead. A call that goes ahead resets the age table and clears
\* the remembered set, and with every LAB empty the call goes ahead in every
\* build.
C12_ResetRememberedSet ==
    /\ []((InResetRememberedSet /\ dcheck_enabled = "on") => EveryLabEmpty)
    /\ [](InResetRememberedSet => dcheck_enabled # "undetermined")
    /\ [](pc \in {"R_remembered_set", "R_returned"} => age_table = "reset")
    /\ [](pc = "R_returned" => remembered_set = 0)
    /\ [][(pc = "idle" /\ pc' = "aborted") =>
              /\ UNCHANGED <<youngVars, lab>>
              /\ dcheck_enabled' = "on"
              /\ ~EveryLabEmpty]_vars
    /\ [][(pc = "idle" /\ pc' = "R_age_table") =>
              /\ UNCHANGED <<youngVars, lab>>
              /\ (dcheck_enabled' = "off" \/ EveryLabEmpty)]_vars
    /\ [][(pc = "idle" /\ (dcheck_enabled' = "off" \/ EveryLabEmpty))
              => pc' # "aborted"]_vars

\* With DCHECKs on, ResetRememberedSet() has aborted on a LAB left open in
\* the space visited first only, and the age table and the remembered set
\* still hold what the mutator put there.
C12_Witness ==
    /\ pc = "aborted"
    /\ abort_site = "labs_check"
    /\ lab["space0"] # 0
    /\ lab["space1"] = 0
    /\ age_table = "set"
    /\ remembered_set > 0


\* Where the headers of the heap are, and the sizes of those that are not
\* free, added up header by header.
HeaderPositions ==
    {<<s, p, i>> \in Spaces \X (1..MaxObjects) \X (1..MaxObjects) :
        p <= Len(raw_heap[s]) /\ i <= Len(raw_heap[s][p])}
LiveHeaderPositions ==
    {h \in HeaderPositions : ~raw_heap[h[1]][h[2]][h[3]].free}
RECURSIVE SizeOfAll(_)
SizeOfAll(positions) ==
    IF positions = {} THEN 0
    ELSE LET h == CHOOSE x \in positions : TRUE
         IN raw_heap[h[1]][h[2]][h[3]].size + SizeOfAll(positions \ {h})

\* C13: ObjectPayloadSize() returns the sum of the sizes of exactly the
\* headers that are not free, over every page of every space: 0 when no
\* object is live, the sum of all sizes when none was freed. It changes
\* nothing, and a second call right after the first returns the same value.
C13_ObjectPayloadSize ==
    /\ []((pc = "O_returned" /\ result.kind = "payload") =>
            /\ result.value = SizeOfAll(LiveHeaderPositions)
            /\ LiveHeaderPositions = {} => result.value = 0
            /\ LiveHeaderPositions = HeaderPositions =>
                  result.value = SizeOfAll(HeaderPositions)
            /\ result.previous # <<>> => result.previous[1] = result.value)
    /\ [][pc' = "O_returned" => UNCHANGED <<HeapState, raw_heap, youngVars>>]_vars

\* ObjectPayloadSize() has been called twice in a row on a heap with a live
\* object in one space and a freed one on another page.
C13_Witness ==
    /\ pc = "O_returned"
    /\ result.previous # <<>>
    /\ result.value > 0
    /\ Len(raw_heap["space0"]) > 0
    /\ Len(raw_heap["space1"]) > 0
    /\ LiveHeaderPositions # {}
    /\ LiveHeaderPositions # HeaderPositions


\* The step clears region r: it is the ClearAllUsedNodes() logged last.
Clears(r) == trace' = Append(trace, <<"ClearAllUsedNodes", r>>)

\* The other thread is between taking and releasing the lock.
OtherThreadRegistering == other_pc \in {"locked", "registered"}

\* C14: Terminate() clears the two cross-thread regions with the
\* PersistentRegionLock held by the terminating thread from before the first
\* of the two clears until after the second, so no clear runs while another
\* thread is inside a registration made under the lock; the two same-thread
\* regions are cleared without the lock.
C14_CrossThreadClearUnderLock ==
    /\ [](pc \in {"T_clear_strong_ct", "T_clear_weak_ct", "T_clear_unlock"} =>
            region_lock = "main" /\ ~OtherThreadRegistering)
    /\ [](OtherThreadRegistering => region_lock = "other")
    /\ [](pc \in {"T_clear_strong", "T_clear_weak", "T_clear_lock"} =>
            region_lock # "main")
    /\ [][(\E r \in CrossThreadRegions : Clears(r)) =>
              (region_lock = "main" /\ region_lock' = "main")]_vars
    /\ [][(\E r \in SameThreadRegions : Clears(r)) =>
              (region_lock # "main" /\ region_lock' = region_lock)]_vars

\* In its second iteration Terminate() holds the lock, has cleared the
\* strong cross-thread region and is about to clear the weak one, which has
\* a slot in use.
C14_Witness ==
    /\ pc = "T_clear_weak_ct"
    /\ region_lock = "main"
    /\ gc_count = 2
    /\ nodes_in_use["strong_cross_thread_persistent_region_"] = 0
    /\ nodes_in_use["weak_cross_thread_persistent_region_"] > 0


\* The statements of an iteration from the first clear up to the call of
\* ExecutePreFinalizers().
BeforePreFinalizersPcs ==
    {"T_clear_strong", "T_clear_weak", "T_clear_lock", "T_clear_strong_ct",
     "T_clear_weak_ct", "T_clear_unlock", "T_pause_on", "T_marking_started",
     "T_reset_labs", "T_marking_completed", "T_prefinalizers_scope"}

\* C15 as stated: the fatal check of the entry is evaluated at the start of
\* every iteration, so no iteration clears roots with a disallow-GC scope
\* active.
C15_FatalCheckEveryIteration ==
    pc \in BeforePreFinalizersPcs => ~in_disallow_gc_scope

\* C15: the checks on marking and on the disallow-GC scope are made once,
\* when Terminate() is called; the loop goes back to the bound check on
\* gc_count only. Whether an iteration starts depends on gc_count alone, and
\* a disallow-GC scope that a pre-finalizer left active does not abort the
\* next iteration.
C15_FatalCheckOnEntryOnly ==
    /\ [][(pc' = "aborted" /\ abort_site' = "entry_check") => pc = "idle"]_vars
    /\ [][pc = "T_loop" =>
              /\ pc' = "T_clear_strong" <=> gc_count < kMaxTerminationGCs
              /\ pc' = "aborted" <=> gc_count >= kMaxTerminationGCs]_vars
    /\ [][(pc = "T_while" /\ more_termination_gcs_needed) => pc' = "T_loop"]_vars
    /\ [](pc \in BeforePreFinalizersPcs /\ gc_count = 1 => ~in_disallow_gc_scope)

\* A pre-finalizer of the first iteration left a disallow-GC scope active and
\* resurrected a root; the second iteration has started and has cleared the
\* first region.
C15_Witness ==
    /\ pc = "T_clear_weak"
    /\ gc_count = 2
    /\ in_disallow_gc_scope
    /\ ClearLogged


\* The statements between in_atomic_pause_ = true and in_atomic_pause_ =
\* false, the latter included as the statement still to execute.
AtomicPausePcs ==
    {"T_marking_started", "T_reset_labs", "T_marking_completed",
     "T_prefinalizers_scope", "T_prefinalizers_invoke",
     "T_prefinalizers_extract", "T_sweeper_start", "T_pause_off"}

\* The step of the loop body logged by this transition, "none" if it logs
\* none.
StepLogged ==
    IF pc \in LoopBodyPcs /\ Len(trace') = Len(trace) + 1
      THEN trace'[Len(trace')][1]
      ELSE "none"

StepsInPause ==
    {"NotifyMarkingStarted", "ResetLinearAllocationBuffers",
     "NotifyMarkingCompleted", "ExecutePreFinalizers", "SweeperStart"}
StepsOutOfPause == {"ClearAllUsedNodes", "NotifyDoneIfNeeded", "NodesInUse"}

\* C16: inside Terminate() in_atomic_pause_ is true exactly from the
\* statement after the root clearing to the statement after the start of the
\* atomic sweep. Both marking notifications, the LAB reset, the
\* pre-finalizers and the sweep start run with the flag true before and
\* after; root clearing, NotifyDoneIfNeeded() and the re-check run with it
\* false; it is false when Terminate() returns, and outside Terminate().
C16_AtomicPauseFlag ==
    /\ [](in_atomic_pause_ <=> pc \in AtomicPausePcs)
    /\ [](pc \in {"T_returned", "idle", "aborted"} => ~in_atomic_pause_)
    /\ [][(StepLogged \in StepsInPause) =>
              (in_atomic_pause_ = TRUE /\ in_atomic_pause_' = TRUE)]_vars
    /\ [][(StepLogged \in StepsOutOfPause) =>
              (in_atomic_pause_ = FALSE /\ in_atomic_pause_' = FALSE)]_vars

\* The second iteration has started its sweep and taken the flag back; the
\* sweeper's NotifyDoneIfNeeded() is next.
C16_Witness ==
    /\ pc = "T_notify_done"
    /\ gc_count = 2
    /\ ~in_atomic_pause_
    /\ trace # <<>>
    /\ trace[Len(trace)][1] = "SweeperStart"


\* A call of Terminate() is under way.
TerminateRunning == pc \in InTerminatePcs \ {"T_returned"}

\* C17: every call of Terminate() eventually returns normally or aborts the
\* process, whatever the pre-finalizers and the sweep resurrect, given that
\* the sweep in flight finishes, the callbacks and the sweep return, and the
\* lock is granted when it becomes free again and again. A call is left in
\* no other way than by its return or by an abort.
C17_TerminateCompletes ==
    /\ TerminateRunning ~> (pc \in {"T_returned", "aborted"})
    /\ [][(pc \in InTerminatePcs /\ pc' \notin InTerminatePcs) =>
              ((pc = "T_returned" /\ pc' = "idle") \/ pc' = "aborted")]_vars

\* Terminate() has run all twenty iterations, each one ending with a root
\* in use, and has aborted on the bound.
C17_Witness ==
    /\ pc = "aborted"
    /\ abort_site = "gc_count"
    /\ gc_count = kMaxTerminationGCs + 1


\* C18 as stated: Terminate() reads the slot counts of the cross-thread
\* regions only with the PersistentRegionLock held, in the re-check and in
\* the final CHECK_EQs, so a registration by another thread never makes a
\* final check fail after the re-check saw every region empty: no call
\* aborts at the final checks.
C18_NoAbortAtFinalChecks ==
    /\ pc \in {"T_recheck_strong_ct", "T_recheck_weak_ct"} =>
          region_lock = "main"
    /\ ~(pc = "aborted" /\ abort_site = "final_check")


\* The statements inside the two blocks guarded by a PersistentRegionLock,
\* the release included as the statement still to execute.
LockHeldPcs ==
    {"T_clear_strong_ct", "T_clear_weak_ct", "T_clear_unlock",
     "T_recheck_strong_ct", "T_recheck_weak_ct", "T_recheck_unlock_hit",
     "T_recheck_unlock_miss"}

\* C19: the terminating thread holds the PersistentRegionLock exactly while
\* it clears the two cross-thread regions and while it re-checks them. The
\* lock is released before in_atomic_pause_ is set, is not held while
\* pre-finalizers or the sweep run, nor at the return or at an abort, and
\* whenever the terminating thread holds it, it releases it later on: a
\* pre-finalizer or another thread that wants the lock is not kept waiting
\* by Terminate() for ever.
C19_LockHeldOnlyForCrossThreadRegions ==
    /\ [](region_lock = "main" <=> pc \in LockHeldPcs)
    /\ [](in_atomic_pause_ => region_lock # "main")
    /\ [](pc \in {"T_returned", "idle", "aborted"} => region_lock # "main")
    /\ (region_lock = "main") ~> (region_lock # "main")

\* While the pre-finalizers of the second iteration run, the other thread
\* holds the lock and has registered a cross-thread root.
C19_Witness ==
    /\ pc = "T_prefinalizers_invoke"
    /\ gc_count = 2
    /\ region_lock = "other"
    /\ other_pc = "registered"

====
